---- MODULE Spec2Model ----
(***************************************************************************)
(* Model of src/error.c (whisk): the diagnostic output helpers error,      *)
(* warning, debug, help, progress, progress_meter and the lazy             *)
(* configuration gate check_params_loaded.                                 *)
(*                                                                         *)
(* The output stream ERR_STREAM is modelled by the sequence of tokens the  *)
(* most recent call appended to it (variable written).  A formatted        *)
(* message is one token drawn from Msgs; the line of progress_meter is     *)
(* modelled character by character.                                        *)
(***************************************************************************)
EXTENDS Integers, Sequences, FiniteSets, TLC

\* ---------------------------------------------------------------- bounds
MaxAttempts == 2   \* gate invocations that reach the loader
MaxSpan     == 2   \* max - min ranges over 1..MaxSpan
MaxWidth    == 4   \* len argument of progress_meter ranges over 0..MaxWidth
MaxCap      == 2   \* length of the formatted caption ranges over 0..MaxCap

Msgs  == {"m1", "m2"}
Shows == {0, 1, 2}
Mins  == {0, 1}

\* ----------------------------------------------------------- output tokens
ERROR_PREFIX   == "*** ERROR: "
WARNING_PREFIX == "--- Warning: "
USAGE          == "<usage>"
WARN_FIRST     == "Make sure default.parameters is in the calling directory\nCould not load parameters from file: default.parameters\nWriting defaults to current directory.\n\tTrying again...\n"
WARN_STILL     == "\tStill couldn't load parameters from file.\n"
CR             == "\r"

\* names of the collaborator calls recorded in the event log of a call
EV_LOAD_OK   == "Load_Params_File=0"
EV_LOAD_FAIL == "Load_Params_File=1"
EV_WARNING   == "warning"
EV_PRINT     == "Print_Params_File"

VARIABLES
  g_params_inited,          \* _g_params_inited
  SHOW_DEBUG_MESSAGES,      \* flag populated by the loader
  SHOW_PROGRESS_MESSAGES,   \* flag populated by the loader
  written,                  \* tokens the last call wrote to ERR_STREAM
  exited,                   \* TRUE once exit() was called
  exit_status,              \* status passed to the parent by exit()
  attempts,                 \* gate invocations that called the loader
  call                      \* the last call: arguments, gate result, events

vars == <<g_params_inited, SHOW_DEBUG_MESSAGES, SHOW_PROGRESS_MESSAGES,
          written, exited, exit_status, attempts, call>>

\* ------------------------------------------------------------ helpers
Rep(n, tok) == [i \in 1..n |-> tok]

Count(s, tok) == Cardinality({i \in 1..Len(s) : s[i] = tok})

Abs(a) == IF a < 0 THEN -a ELSE a

\* conversion of the double quotient a/b to int: truncation toward zero
TruncDiv(a, b) ==
  LET q == Abs(a) \div Abs(b)
  IN  IF (a < 0) = (b < 0) THEN q ELSE -q

\* status seen by the parent process for exit(code)
ExitStatus(code) == code % 256

\* Outcome of one Load_Params_File call: return code (0 = success) and the
\* flag values a successful load populates; a failed load populates none.
LoadOutcomes ==
  {l \in [rc : {0, 1}, dbg : {0, 1}, prog : {0, 1}] :
     l.rc # 0 => (l.dbg = 0 /\ l.prog = 0)}

\* a load that is never performed
NoLoad == [rc |-> 0, dbg |-> 0, prog |-> 0]

\* the outcomes to consider for the first and the second load of a gate
\* invocation: the loader is consulted only where the gate calls it
FirstLoads == IF g_params_inited = 0 THEN LoadOutcomes ELSE {NoLoad}

SecondLoads(l1) ==
  IF g_params_inited = 0 /\ l1.rc # 0 THEN LoadOutcomes ELSE {NoLoad}

EvLoad(l) == IF l.rc # 0 THEN EV_LOAD_FAIL ELSE EV_LOAD_OK

\* the process state a function works on
State == [inited |-> g_params_inited, dbg |-> SHOW_DEBUG_MESSAGES,
          prog |-> SHOW_PROGRESS_MESSAGES]

\* result of a function that did not touch the gate
Plain(st, out, ex, code) ==
  [inited |-> st.inited, dbg |-> st.dbg, prog |-> st.prog,
   gate |-> -1, events |-> <<>>, out |-> out,
   exited |-> ex, status |-> IF ex THEN ExitStatus(code) ELSE 0]

\* variant: the prefix is left out
warning_noprefix(st, msg) == Plain(st, <<msg>>, FALSE, 0)

\* ------------------------------------------------------------ warning
warning(st, msg) == Plain(st, <<WARNING_PREFIX, msg>>, FALSE, 0)

\* ------------------------------------------------------------ error
error(st, msg) == Plain(st, <<ERROR_PREFIX, msg>>, TRUE, -1)

\* ------------------------------------------------- check_params_loaded
\* l1, l2: outcomes of the first and of the second Load_Params_File call

\* the first load succeeded: the else branch
GateLoaded(st, l1) ==
  [inited |-> 1, dbg |-> l1.dbg, prog |-> l1.prog,
   gate |-> 1, events |-> <<EvLoad(l1)>>, out |-> <<>>,
   exited |-> FALSE, status |-> 0]

\* variant: the defaults are written before the warning is emitted
GateRetriedPrintFirst(st, l1, l2) ==
  [inited |-> 1, dbg |-> l2.dbg, prog |-> l2.prog,
   gate |-> 1,
   events |-> <<EvLoad(l1), EV_PRINT, EV_WARNING, EvLoad(l2)>>,
   out |-> warning(st, WARN_FIRST).out,
   exited |-> FALSE, status |-> 0]

\* the first load failed and the retry succeeded
GateRetried(st, l1, l2) ==
  [inited |-> 1, dbg |-> l2.dbg, prog |-> l2.prog,
   gate |-> 1,
   events |-> <<EvLoad(l1), EV_WARNING, EV_PRINT, EvLoad(l2)>>,
   out |-> warning(st, WARN_FIRST).out,
   exited |-> FALSE, status |-> 0]

\* variant: a failed attempt marks the configuration initialised
GateFailedSticky(st, l1, l2) ==
  [inited |-> 1, dbg |-> st.dbg, prog |-> st.prog,
   gate |-> 0,
   events |-> <<EvLoad(l1), EV_WARNING, EV_PRINT, EvLoad(l2), EV_WARNING>>,
   out |-> warning(st, WARN_FIRST).out \o warning(st, WARN_STILL).out,
   exited |-> FALSE, status |-> 0]

\* both loads failed: return 0 with _g_params_inited untouched
GateFailed(st, l1, l2) ==
  [inited |-> st.inited, dbg |-> st.dbg, prog |-> st.prog,
   gate |-> 0,
   events |-> <<EvLoad(l1), EV_WARNING, EV_PRINT, EvLoad(l2), EV_WARNING>>,
   out |-> warning(st, WARN_FIRST).out \o warning(st, WARN_STILL).out,
   exited |-> FALSE, status |-> 0]

\* the body of if(_g_params_inited==0)
LoadSequence(st, l1, l2) ==
  IF l1.rc # 0
  THEN IF l2.rc # 0 THEN GateFailed(st, l1, l2) ELSE GateRetried(st, l1, l2)
  ELSE GateLoaded(st, l1)

\* already initialised: return 1
GateSkipped(st) ==
  [inited |-> st.inited, dbg |-> st.dbg, prog |-> st.prog,
   gate |-> 1, events |-> <<>>, out |-> <<>>,
   exited |-> FALSE, status |-> 0]

\* variant: the test of _g_params_inited is left out
check_params_loaded_always(st, l1, l2) == LoadSequence(st, l1, l2)

check_params_loaded(st, l1, l2) ==
  IF st.inited = 0 THEN LoadSequence(st, l1, l2) ELSE GateSkipped(st)

\* ------------------------------------------------------------ debug
\* variant: SHOW_DEBUG_MESSAGES is not consulted
debug_unflagged(st, l1, l2, msg) ==
  LET g == check_params_loaded(st, l1, l2)
  IN  IF g.gate # 0
      THEN [g EXCEPT !.out = g.out \o <<msg>>]
      ELSE g

debug(st, l1, l2, msg) ==
  LET g == check_params_loaded(st, l1, l2)
  IN  IF g.gate # 0 /\ g.dbg # 0
      THEN [g EXCEPT !.out = g.out \o <<msg>>]
      ELSE g

\* ------------------------------------------------------------ help
\* variant: show is not consulted
help_always(st, show, msg) == Plain(st, <<USAGE, msg>>, TRUE, 0)

help(st, show, msg) ==
  IF show # 0
  THEN Plain(st, <<USAGE, msg>>, TRUE, 0)
  ELSE Plain(st, <<>>, FALSE, 0)

\* ------------------------------------------------------------ progress
\* variant: the result of the gate is not consulted
progress_ungated(st, l1, l2, msg) ==
  LET g == check_params_loaded(st, l1, l2)
  IN  IF g.prog # 0
      THEN [g EXCEPT !.out = g.out \o <<msg>>]
      ELSE g

progress(st, l1, l2, msg) ==
  LET g == check_params_loaded(st, l1, l2)
  IN  IF g.gate # 0 /\ g.prog # 0
      THEN [g EXCEPT !.out = g.out \o <<msg>>]
      ELSE g

\* ------------------------------------------------------ progress_meter
\* number of '|' characters: int nc = (len)*(cur-min)/(max-min)
\* variant: min is not subtracted from cur
FillCount_nomin(len, cur, min, max) == TruncDiv(len * cur, max - min)

FillCount(len, cur, min, max) == TruncDiv(len * (cur - min), max - min)

\* len after "len -= (n-1)", n counting the CR, the caption and '['
Remaining(len, cap) == len - ((1 + cap + 1) - 1)

\* len after "len -= (nc+1)": the number of '-' characters if positive
\* variant: len -= nc + 1 read as len = len - nc + 1
Unfilled_plus(len, nc) == len - nc + 1

Unfilled(len, nc) == len - (nc + 1)

\* while(k-- > 0) n+=sprintf(buf+n,tok): k copies of tok, none if k <= 0
\* variant: the loop test is k-- >= 0
Run_ge(k, tok) == [i \in 1..(k + 1) |-> tok]

Run(k, tok) == [i \in 1..k |-> tok]

\* the buffer assembled by progress_meter; cap = length of the caption
MeterLine(cur, min, max, len, cap) ==
  LET r  == Remaining(len, cap)
      nc == FillCount(r, cur, min, max)
  IN  <<CR>> \o Rep(cap, "c") \o <<"[">>
        \o Run(nc, "|") \o Run(Unfilled(r, nc), "-") \o <<"]", CR>>

progress_meter(st, l1, l2, cur, min, max, len, cap) ==
  LET g == check_params_loaded(st, l1, l2)
  IN  IF g.gate # 0 /\ g.prog # 0
      THEN [g EXCEPT !.out = g.out \o MeterLine(cur, min, max, len, cap)]
      ELSE g

\* ------------------------------------------------------------ the calls
NoArgs == [op |-> "none", msg |-> "", show |-> 0, cur |-> 0, min |-> 0,
           max |-> 0, len |-> 0, cap |-> 0]

\* the process state after a function returned (or exited) with result r
Apply(r, args) ==
  /\ g_params_inited' = r.inited
  /\ SHOW_DEBUG_MESSAGES' = r.dbg
  /\ SHOW_PROGRESS_MESSAGES' = r.prog
  /\ written' = r.out
  /\ exited' = r.exited
  /\ exit_status' = r.status
  /\ attempts' = IF Len(r.events) > 0 THEN attempts + 1 ELSE attempts
  /\ call' = [op |-> args.op, msg |-> args.msg, show |-> args.show,
              cur |-> args.cur, min |-> args.min, max |-> args.max,
              len |-> args.len, cap |-> args.cap,
              pre_inited |-> g_params_inited,
              gate |-> r.gate, events |-> r.events]

Running == ~exited

\* a gated call may reach the loader only while the attempt bound allows
MayGate == Running /\ (g_params_inited = 1 \/ attempts < MaxAttempts)

CallError ==
  /\ Running
  /\ \E m \in Msgs :
       Apply(error(State, m), [NoArgs EXCEPT !.op = "error", !.msg = m])

CallWarning ==
  /\ Running
  /\ \E m \in Msgs :
       Apply(warning(State, m), [NoArgs EXCEPT !.op = "warning", !.msg = m])

CallDebug ==
  /\ MayGate
  /\ \E m \in Msgs, l1 \in FirstLoads : \E l2 \in SecondLoads(l1) :
       Apply(debug(State, l1, l2, m),
             [NoArgs EXCEPT !.op = "debug", !.msg = m])

CallHelp ==
  /\ Running
  /\ \E m \in Msgs, s \in Shows :
       Apply(help(State, s, m),
             [NoArgs EXCEPT !.op = "help", !.msg = m, !.show = s])

CallProgress ==
  /\ MayGate
  /\ \E m \in Msgs, l1 \in FirstLoads : \E l2 \in SecondLoads(l1) :
       Apply(progress(State, l1, l2, m),
             [NoArgs EXCEPT !.op = "progress", !.msg = m])

\* max = min makes the quotient a division by zero; callers must avoid it
CallProgressMeter ==
  /\ MayGate
  /\ \E l1 \in FirstLoads : \E l2 \in SecondLoads(l1) :
     \E lo \in Mins, w \in 0..MaxWidth, k \in 0..MaxCap :
     \E hi \in (lo + 1)..(lo + MaxSpan) : \E c \in (lo - 1)..(hi + 1) :
          Apply(progress_meter(State, l1, l2, c, lo, hi, w, k),
                [NoArgs EXCEPT !.op = "progress_meter", !.cur = c,
                               !.min = lo, !.max = hi, !.len = w, !.cap = k])

Init ==
  /\ g_params_inited = 0
  /\ SHOW_DEBUG_MESSAGES \in {0, 1}
  /\ SHOW_PROGRESS_MESSAGES \in {0, 1}
  /\ written = <<>>
  /\ exited = FALSE
  /\ exit_status = 0
  /\ attempts = 0
  /\ call = [op |-> "none", msg |-> "", show |-> 0, cur |-> 0, min |-> 0,
             max |-> 0, len |-> 0, cap |-> 0, pre_inited |-> 0,
             gate |-> -1, events |-> <<>>]

Next ==
  \/ CallError
  \/ CallWarning
  \/ CallDebug
  \/ CallHelp
  \/ CallProgress
  \/ CallProgressMeter

Spec == Init /\ [][Next]_vars

TypeOK ==
  /\ g_params_inited \in {0, 1}
  /\ SHOW_DEBUG_MESSAGES \in {0, 1}
  /\ SHOW_PROGRESS_MESSAGES \in {0, 1}
  /\ exited \in BOOLEAN
  /\ attempts \in 0..MaxAttempts

\* ================================================================ claims
Gated == {"debug", "progress", "progress_meter"}

\* the last call reached the gate
GatedCall == call.op \in Gated

\* the warnings the gate wrote during the last call
GateWarnings ==
  IF Count(call.events, EV_WARNING) = 0 THEN <<>>
  ELSE IF Count(call.events, EV_WARNING) = 1
       THEN <<WARNING_PREFIX, WARN_FIRST>>
       ELSE <<WARNING_PREFIX, WARN_FIRST, WARNING_PREFIX, WARN_STILL>>

\* what the last call wrote after the output of its gate invocation
Body == SubSeq(written, 2 * Count(written, WARNING_PREFIX) + 1, Len(written))

\* the last call was a progress_meter call that rendered its line
Drawn ==
  /\ call.op = "progress_meter"
  /\ call.gate = 1
  /\ SHOW_PROGRESS_MESSAGES # 0

InRange == call.min <= call.cur /\ call.cur <= call.max

\* characters between the leading and the trailing carriage return
LineLen ==
  Count(written, "c") + Count(written, "[") + Count(written, "|")
    + Count(written, "-") + Count(written, "]")

\* C1: once the gate has succeeded (_g_params_inited = 1), every later gated
\* call finds the gate returning true with no loader call, no default write
\* and no warning, and _g_params_inited stays 1.
C1_GateIdempotent ==
  (GatedCall /\ call.pre_inited = 1) =>
     /\ call.gate = 1
     /\ call.events = <<>>
     /\ Count(written, WARNING_PREFIX) = 0
     /\ g_params_inited = 1

C1_Witness ==
  /\ GatedCall
  /\ call.pre_inited = 1
  /\ attempts = 1

\* C2 (as claimed): the loader is invoked during at most one gate invocation
\* of the process, whether that attempt succeeded or failed.
C2_AttemptedOnce == attempts <= 1

\* C2 (amended): once an attempt has succeeded the configuration is never
\* attempted again; an attempt whose two loads failed leaves
\* _g_params_inited at 0, and every gated call made while it is 0 runs the
\* load sequence again.
C2_NoRetryAfterSuccess ==
  /\ [](call.gate = 0 => g_params_inited = 0)
  /\ [][g_params_inited = 1 =>
          (attempts' = attempts /\ g_params_inited' = 1)]_vars
  /\ [][(g_params_inited = 0 /\ call'.op \in Gated) =>
          attempts' = attempts + 1]_vars

C2_Witness ==
  /\ attempts = 2
  /\ g_params_inited = 1
  /\ GatedCall
  /\ call.pre_inited = 1

\* C3: a gate invocation made while uninitialised performs: load; on failure
\* one warning, one default write, one retry; on a failed retry a second
\* warning, result false and the flag still 0; on a successful load or retry
\* the flag is 1 and the result true.
C3_LoadSequenceOrder ==
  (GatedCall /\ call.pre_inited = 0) =>
     \/ /\ call.events = <<EV_LOAD_OK>>
        /\ call.gate = 1
        /\ g_params_inited = 1
     \/ /\ call.events = <<EV_LOAD_FAIL, EV_WARNING, EV_PRINT, EV_LOAD_OK>>
        /\ call.gate = 1
        /\ g_params_inited = 1
     \/ /\ call.events = <<EV_LOAD_FAIL, EV_WARNING, EV_PRINT,
                           EV_LOAD_FAIL, EV_WARNING>>
        /\ call.gate = 0
        /\ g_params_inited = 0

C3_Witness ==
  /\ GatedCall
  /\ call.pre_inited = 0
  /\ Len(call.events) = 4
  /\ g_params_inited = 1

\* C4: debug() writes its message, unprefixed, iff its gate invocation
\* returned true and SHOW_DEBUG_MESSAGES is set; progress() and
\* progress_meter() write iff the gate returned true and
\* SHOW_PROGRESS_MESSAGES is set.
C4_FlagGating ==
  /\ call.op = "debug" =>
       Body = IF call.gate = 1 /\ SHOW_DEBUG_MESSAGES # 0
              THEN <<call.msg>> ELSE <<>>
  /\ call.op = "progress" =>
       Body = IF call.gate = 1 /\ SHOW_PROGRESS_MESSAGES # 0
              THEN <<call.msg>> ELSE <<>>
  /\ call.op = "progress_meter" =>
       (Len(Body) > 0 <=> (call.gate = 1 /\ SHOW_PROGRESS_MESSAGES # 0))

C4_Witness ==
  /\ call.op = "debug"
  /\ written = <<call.msg>>
  /\ SHOW_DEBUG_MESSAGES = 1
  /\ SHOW_PROGRESS_MESSAGES = 0

\* C5 (as claimed): debug() or progress() whose gate invocation fails writes
\* nothing at all to the output stream.
C5_SilentOnFailure ==
  (call.op \in {"debug", "progress"} /\ call.gate = 0) => written = <<>>

\* C5 (amended): debug() or progress() whose gate invocation fails never
\* writes its message; the call writes exactly the two warnings of the gate.
C5_OnlyGateWarnings ==
  (call.op \in {"debug", "progress"} /\ call.gate = 0) =>
     /\ Count(written, call.msg) = 0
     /\ written = <<WARNING_PREFIX, WARN_FIRST, WARNING_PREFIX, WARN_STILL>>

C5_Witness ==
  /\ call.op = "debug"
  /\ call.gate = 0
  /\ SHOW_DEBUG_MESSAGES = 1

\* C6: warning() writes "--- Warning: " then the message, error() writes
\* "*** ERROR: " then the message, in every configuration state; neither
\* reaches the loader or the default writer nor changes the initialised
\* flag or the two flags.
C6_Ungated ==
  [][/\ call'.op = "warning" => written' = <<WARNING_PREFIX, call'.msg>>
     /\ call'.op = "error" => written' = <<ERROR_PREFIX, call'.msg>>
     /\ call'.op \in {"warning", "error"} =>
          /\ call'.events = <<>>
          /\ attempts' = attempts
          /\ UNCHANGED <<g_params_inited, SHOW_DEBUG_MESSAGES,
                         SHOW_PROGRESS_MESSAGES>>]_vars

C6_Witness ==
  /\ call.op = "warning"
  /\ g_params_inited = 0
  /\ attempts = 1
  /\ SHOW_PROGRESS_MESSAGES = 1

\* C7: the process terminates exactly on error() (non-zero status, after
\* its message) and on help() with show true (status zero, after the usage
\* banner and the message); help() with show false writes nothing and does
\* not reach the gate; every other call returns; nothing is written after
\* a terminating call.
C7_Termination ==
  /\ [](/\ exited <=> (call.op = "error" \/ (call.op = "help" /\ call.show # 0))
        /\ call.op = "error" =>
             (exit_status # 0 /\ written = <<ERROR_PREFIX, call.msg>>)
        /\ (call.op = "help" /\ call.show # 0) =>
             (exit_status = 0 /\ written = <<USAGE, call.msg>>)
        /\ (call.op = "help" /\ call.show = 0) =>
             (written = <<>> /\ call.gate = -1 /\ call.events = <<>>))
  /\ [][exited => UNCHANGED written]_vars

C7_Witness ==
  /\ exited
  /\ call.op = "help"
  /\ call.show = 2
  /\ exit_status = 0

\* C8 (as claimed): with min <= cur <= max and len at least the caption
\* length, the rendered line holds at most len characters between its two
\* carriage returns.
C8_WithinWidth ==
  (Drawn /\ InRange /\ call.len >= call.cap) => LineLen <= call.len

\* C8 (amended): under the same conditions the rendered line holds at most
\* len + 1 characters when len exceeds the caption length, and at most
\* len + 2 when len equals it.
C8_WithinWidthPlusSlack ==
  (Drawn /\ InRange /\ call.len >= call.cap) =>
     LineLen <= (IF call.len > call.cap THEN call.len + 1 ELSE call.len + 2)

C8_Witness ==
  /\ Drawn
  /\ InRange
  /\ call.len > call.cap + 1
  /\ LineLen = call.len + 1

\* C9: with min <= cur <= max and len at least the caption length plus one,
\* the line is CR, caption, '[', floor(R*(cur-min)/(max-min)) '|', then only
\* '-', then ']' and CR, R being len - caption length - 1; cur = min gives
\* no '|', cur = max gives R '|' and no '-'.
C9_BarShape ==
  (Drawn /\ InRange /\ call.len >= call.cap + 1) =>
     LET R == call.len - call.cap - 1
         f == (R * (call.cur - call.min)) \div (call.max - call.min)
     IN  /\ Body = <<CR>> \o Rep(call.cap, "c") \o <<"[">> \o Rep(f, "|")
                     \o Rep(Count(written, "-"), "-") \o <<"]", CR>>
         /\ call.cur = call.min => Count(written, "|") = 0
         /\ call.cur = call.max =>
              (Count(written, "|") = R /\ Count(written, "-") = 0)

C9_Witness ==
  /\ Drawn
  /\ call.min = 1
  /\ call.min < call.cur
  /\ call.cur < call.max
  /\ Count(written, "|") > 0
  /\ Count(written, "-") > 0

\* C10 (as claimed): with len smaller than the caption length the line holds
\* no '|' and no '-', for every value of cur.
C10_NoBarAnyCur ==
  (Drawn /\ call.len < call.cap) =>
     (Count(written, "|") = 0 /\ Count(written, "-") = 0)

\* C10 (amended): with len smaller than the caption length and
\* min <= cur <= max the line holds no '|' and no '-': it is CR, the
\* caption, "[]" and CR.
C10_NoBarInRange ==
  (Drawn /\ call.len < call.cap /\ InRange) =>
     /\ Count(written, "|") = 0
     /\ Count(written, "-") = 0
     /\ Body = <<CR>> \o Rep(call.cap, "c") \o <<"[", "]", CR>>

C10_Witness ==
  /\ Drawn
  /\ call.len < call.cap
  /\ call.cur = call.max
====
